---- MODULE Spec2Model ----
(***************************************************************************)
(* Filesystem change-notification subsystem of the desktop backend         *)
(* (src-tauri/src/watcher.rs with its callers in lib.rs and commands.rs).  *)
(*                                                                         *)
(* A path is a sequence of components, a component a sequence of           *)
(* one-character strings.  Options are sequences of length at most one.    *)
(***************************************************************************)
EXTENDS Integers, Sequences, FiniteSets, TLC

\* ------------------------------------------------------------------ bounds
MaxWatches == 2
MaxEvents == 2
MaxPaths == 3
Workers == 1
MaxName == 5

\* ------------------------------------------------------------------ options
None == <<>>

Some(x) == <<x>>

\* ------------------------------------------------------------------ paths
\* A byte that is not part of any valid UTF-8 encoding (Unix file names are
\* arbitrary byte strings).
InvalidByte == "xFF"

\* dirs::home_dir() joined with ".bluekit" and "projectRegistry.json"
get_registry_path == << <<"h">>, <<".", "b">>, <<"r", ".", "j">> >>

\* a path that has the registry path as a textual prefix
RegistrySibling == << <<"h">>, <<".", "b">>, <<"r", ".", "j", "~">> >>

ProjectPath == << <<"p">> >>

\* PathBuf::from(project_path).join(".bluekit").join("kits")
kits_dir(project_path) == project_path \o << <<".", "b">>, <<"k">> >>

KitA == kits_dir(ProjectPath) \o << <<"a", ".", "m", "d">> >>

KitB == kits_dir(ProjectPath) \o << <<"b", ".", "m", "d">> >>

KitTxt == kits_dir(ProjectPath) \o << <<"n", ".", "t">> >>

KitRaw == kits_dir(ProjectPath) \o << <<InvalidByte, ".", "m", "d">> >>

\* Path::file_name
file_name(p) ==
  IF p = <<>> \/ p[Len(p)] = <<".", ".">> THEN None ELSE Some(p[Len(p)])

LastDot(s) ==
  LET dots == {i \in 1..Len(s) : s[i] = "."}
  IN IF dots = {} THEN 0 ELSE CHOOSE i \in dots : \A j \in dots : j <= i

\* an extension taken from the first dot of the name
extension_first_dot(p) ==
  IF file_name(p) = None THEN None
  ELSE LET f == file_name(p)[1]
           dots == {i \in 1..Len(f) : f[i] = "."}
           d == IF dots = {} THEN 0
                ELSE CHOOSE i \in dots : \A j \in dots : i <= j
       IN IF d <= 1 THEN None ELSE Some(SubSeq(f, d + 1, Len(f)))

\* Path::extension: the part of the file name after its last dot; none when
\* the name has no dot or when its only dot is the leading one.
extension(p) ==
  IF file_name(p) = None THEN None
  ELSE LET f == file_name(p)[1]
           d == LastDot(f)
       IN IF d <= 1 THEN None ELSE Some(SubSeq(f, d + 1, Len(f)))

\* OsStr::to_str: the text when every byte is valid UTF-8
to_str(s) ==
  IF \E i \in 1..Len(s) : s[i] = InvalidByte THEN None ELSE Some(s)

RECURSIVE Flatten(_)
Flatten(p) ==
  IF p = <<>> THEN <<>> ELSE <<"/">> \o p[1] \o Flatten(Tail(p))

\* Path::to_str followed by to_string: the text of the whole path
path_to_string(p) == to_str(Flatten(p))

\* p.extension().and_then(|ext| ext.to_str()).map(|ext| ext == "md").unwrap_or(false)
is_md(p) ==
  LET ext == extension(p)
  IN IF ext = None THEN FALSE
     ELSE IF to_str(ext[1]) = None THEN FALSE
     ELSE to_str(ext[1])[1] = <<"m", "d">>

\* ------------------------------------------------------------------ events
EventKinds == {"Create", "Modify", "Remove", "Access", "Other"}

EventPaths == {get_registry_path, RegistrySibling, KitA, KitB, KitTxt, KitRaw}

PathLists == UNION {[1..n -> EventPaths] : n \in 0..MaxPaths}

\* Result<Event, notify::Error> as handed to the watcher's callback
RawResults ==
  [tag : {"Ok"}, kind : EventKinds, paths : PathLists]
    \cup {[tag |-> "Err", kind |-> "Other", paths |-> <<>>]}

Ok(kind, paths) == [tag |-> "Ok", kind |-> kind, paths |-> paths]

\* the native results the whole-system specification draws from
SysResults ==
  { Ok("Modify", <<get_registry_path>>),
    Ok("Modify", <<RegistrySibling, get_registry_path>>),
    Ok("Access", <<get_registry_path>>),
    Ok("Create", <<KitA, KitTxt>>),
    Ok("Modify", <<KitRaw>>),
    Ok("Remove", <<KitTxt>>),
    [tag |-> "Err", kind |-> "Other", paths |-> <<>>] }

\* a callback without the kind test
kind_gate_any(kind) == TRUE

\* matches!(event.kind, Modify(_) | Create(_) | Remove(_))
kind_gate(kind) == kind \in {"Modify", "Create", "Remove"}

\* event.paths.iter().any(is_md)
has_md_file(paths) == \E i \in 1..Len(paths) : is_md(paths[i])

\* a projection that collects the matches in reverse
RECURSIVE md_files_reversed(_)
md_files_reversed(paths) ==
  IF paths = <<>> THEN <<>>
  ELSE LET p == Head(paths)
           kept == IF is_md(p) THEN path_to_string(p) ELSE None
       IN md_files_reversed(Tail(paths)) \o kept

\* a projection that stops after its first match
RECURSIVE md_files_first_only(_)
md_files_first_only(paths) ==
  IF paths = <<>> THEN <<>>
  ELSE LET p == Head(paths)
           kept == IF is_md(p) THEN path_to_string(p) ELSE None
       IN IF kept # None THEN kept ELSE md_files_first_only(Tail(paths))

\* event.paths.iter().filter_map(..).collect()
RECURSIVE md_files(_)
md_files(paths) ==
  IF paths = <<>> THEN <<>>
  ELSE LET p == Head(paths)
           kept == IF is_md(p) THEN path_to_string(p) ELSE None
       IN kept \o md_files(Tail(paths))

\* a channel that hands out the newest message first
send_front(q, item) == <<item>> \o q

\* mpsc::Sender::send on the unbounded channel
send(q, item) == Append(q, item)

\* the outcome of a callback: the queue afterwards and what it printed
Sent(q) == [q |-> q, log |-> {}]

SendFailed(q, line) == [q |-> q, log |-> {line}]

\* the closure given to RecommendedWatcher::new in watch_file
file_callback(q, id, result, rx_alive) ==
  IF result.tag = "Ok" /\ kind_gate(result.kind)
  THEN IF rx_alive
       THEN Sent(send(q, [id |-> id, ev |-> result]))
       ELSE SendFailed(q, "Error sending file event: ")
  ELSE Sent(q)

\* the closure given to RecommendedWatcher::new in watch_directory
dir_callback(q, id, result, rx_alive) ==
  IF result.tag = "Ok" /\ kind_gate(result.kind) /\ has_md_file(result.paths)
  THEN IF rx_alive
       THEN Sent(send(q, [id |-> id, ev |-> result]))
       ELSE SendFailed(q, "Error sending directory event: ")
  ELSE Sent(q)

Signal == [shape |-> "unit", list |-> <<>>]

PathList(l) == [shape |-> "list", list |-> l]

\* a delivery loop without the is_empty test
dir_notification_unchecked(event) == Some(PathList(md_files(event.paths)))

\* body of the delivery loop of watch_file: what is passed to emit_all
file_notification(event, file_path) ==
  IF event.paths # <<>> /\ event.paths[1] = file_path
  THEN Some(Signal)
  ELSE None

\* body of the delivery loop of watch_directory: what is passed to emit_all
dir_notification(event) ==
  LET l == md_files(event.paths)
  IN IF l # <<>> THEN Some(PathList(l)) ELSE None

\* mpsc::Receiver::recv on a non-empty queue: the oldest message
recv(q) == Head(q)

\* a recv that fails as soon as the senders are gone
recv_err_eager(q, disconnected) == disconnected

\* mpsc::Receiver::recv returns Err: nothing buffered and every sender gone
recv_err(q, disconnected) == q = <<>> /\ disconnected

\* a channel of capacity one, whose send waits while it is full
can_send_bounded(q) == Len(q) < 1

\* mpsc::channel() is unbounded: send never waits for the receiver
can_send(q) == TRUE

\* a loop that a failed emit_all ends
after_emit_stop(ok) == IF ok THEN "running" ELSE "exited"

\* if let Err(e) = emit_all(..) { eprintln!(..) }: the loop goes on
after_emit(ok) == "running"

\* ------------------------------------------------------------------ state
Watches == 1..MaxWatches

VARIABLES
  exists,     \* the root paths present on disk
  setup,      \* the setup hook of run(): where it is, what home_dir gave
  pc,         \* per watch: position of the establishing call
  args,       \* per watch: kind, root path and event name of the call
  result,     \* per watch: what the establishing call returned
  watcher,    \* per watch: the RecommendedWatcher (it owns the sender tx)
  queue,      \* per watch: the mpsc channel's buffered events
  task,       \* per watch: the spawned delivery task
  published,  \* per watch: the calls of emit_all, in order
  stderr,     \* the eprintln! lines, by watch
  occurred    \* history: the native results reported, in order

vars ==
  <<exists, setup, pc, args, result, watcher, queue, task, published, stderr,
    occurred>>

NoArgs == [kind |-> "none", root |-> <<>>, name |-> "", mode |-> ""]

NoResult == [status |-> "none", prefix |-> "", path |-> None, cause |-> ""]

OkResult == [status |-> "ok", prefix |-> "", path |-> None, cause |-> ""]

Err(prefix, path, cause) ==
  [status |-> "err", prefix |-> prefix, path |-> path, cause |-> cause]

Init ==
  /\ exists \in SUBSET {get_registry_path, kits_dir(ProjectPath)}
  /\ setup = [at |-> "pending", home |-> ""]
  /\ pc = [w \in Watches |-> "idle"]
  /\ args = [w \in Watches |-> NoArgs]
  /\ result = [w \in Watches |-> NoResult]
  /\ watcher = [w \in Watches |-> "none"]
  /\ queue = [w \in Watches |-> <<>>]
  /\ task = [w \in Watches |-> "none"]
  /\ published = [w \in Watches |-> <<>>]
  /\ stderr = {}
  /\ occurred = <<>>

\* the slot the next establishing call uses
FreeSlot(w) == pc[w] = "idle" /\ \A v \in Watches : v < w => pc[v] # "idle"

NewErrors == {"", "TooManyWatches"}

\* what watcher.watch can answer for a root
WatchErrors(root) ==
  IF root \in exists THEN {"", "PermissionDenied"} ELSE {"NotFound"}

\* ------------------------------------------------------------------ calls
\* .map_err(|e| format!("Failed to create file watcher: {}", e))
file_create_error(e) == Err("Failed to create file watcher: ", None, e)

\* a message that leaves out the path
file_watch_error_nopath(file_path, e) == Err("Failed to watch file: ", None, e)

\* .map_err(|e| format!("Failed to watch file: {:?}: {}", file_path, e))
file_watch_error(file_path, e) ==
  Err("Failed to watch file: ", Some(file_path), e)

\* .map_err(|e| format!("Failed to create directory watcher: {}", e))
dir_create_error(e) == Err("Failed to create directory watcher: ", None, e)

\* .map_err(|e| format!("Failed to watch directory: {:?}: {}", dir_path, e))
dir_watch_error(dir_path, e) ==
  Err("Failed to watch directory: ", Some(dir_path), e)

\* watch_file up to and including watcher.watch
watch_file(w, file_path, event_name, new_err, watch_err) ==
  /\ args' = [args EXCEPT ![w] =
                [kind |-> "file", root |-> file_path, name |-> event_name,
                 mode |-> "NonRecursive"]]
  /\ IF new_err # ""
     THEN /\ pc' = [pc EXCEPT ![w] = "err"]
          /\ result' = [result EXCEPT ![w] =
                          file_create_error(new_err)]
          /\ UNCHANGED watcher
     ELSE IF watch_err # ""
     THEN /\ pc' = [pc EXCEPT ![w] = "err"]
          /\ result' = [result EXCEPT ![w] =
                          file_watch_error(file_path, watch_err)]
          /\ watcher' = [watcher EXCEPT ![w] = "dropped"]
     ELSE /\ pc' = [pc EXCEPT ![w] = "bound"]
          /\ watcher' = [watcher EXCEPT ![w] = "watching"]
          /\ UNCHANGED result
  /\ UNCHANGED <<exists, queue, task, published, occurred>>

\* watch_directory up to and including watcher.watch
watch_directory(w, dir_path, event_name, new_err, watch_err) ==
  /\ args' = [args EXCEPT ![w] =
                [kind |-> "dir", root |-> dir_path, name |-> event_name,
                 mode |-> "Recursive"]]
  /\ IF new_err # ""
     THEN /\ pc' = [pc EXCEPT ![w] = "err"]
          /\ result' = [result EXCEPT ![w] =
                          dir_create_error(new_err)]
          /\ UNCHANGED watcher
     ELSE IF watch_err # ""
     THEN /\ pc' = [pc EXCEPT ![w] = "err"]
          /\ result' = [result EXCEPT ![w] =
                          dir_watch_error(dir_path, watch_err)]
          /\ watcher' = [watcher EXCEPT ![w] = "dropped"]
     ELSE /\ pc' = [pc EXCEPT ![w] = "bound"]
          /\ watcher' = [watcher EXCEPT ![w] = "watching"]
          /\ UNCHANGED result
  /\ UNCHANGED <<exists, queue, task, published, occurred>>

\* a setup hook that hands the failure on with `?`
setup_returns_failing(failed) == IF failed THEN "failed" ELSE "done"

\* the setup hook ends with Ok(()) whatever happened before: the application
\* goes on to run
setup_returns(failed) == "done"

\* if let Err(e) = watch_file(..) { eprintln!("Failed to start file watcher: {}", e) }
setup_log(w, failed) ==
  IF failed THEN {[watch |-> w, line |-> "Failed to start file watcher: "]}
  ELSE {}

\* the setup hook of run(): resolve the registry path and call watch_file
run_setup(w, home_ok, new_err, watch_err) ==
  /\ setup.at = "pending"
  /\ FreeSlot(w)
  /\ IF ~home_ok
     THEN /\ setup' = [at |-> setup_returns(TRUE), home |-> "missing"]
          /\ UNCHANGED <<exists, pc, args, result, watcher, queue, task,
                         published, stderr, occurred>>
     ELSE /\ watch_file(w, get_registry_path, "project-registry-changed",
                        new_err, watch_err)
          /\ stderr' = stderr \cup setup_log(w, new_err # "" \/ watch_err # "")
          /\ setup' = [at |-> IF new_err # "" \/ watch_err # ""
                               THEN setup_returns(TRUE)
                               ELSE "in_watch_file",
                        home |-> "found"]

\* a command without the existence test
kits_dir_missing_unchecked(dir) == FALSE

\* !kits_dir.exists()
kits_dir_missing(dir) == dir \notin exists

\* the watch_project_kits command
watch_project_kits(w, project_path, new_err, watch_err) ==
  /\ setup.at = "done"
  /\ FreeSlot(w)
  /\ UNCHANGED <<setup, stderr>>
  /\ IF kits_dir_missing(kits_dir(project_path))
     THEN /\ pc' = [pc EXCEPT ![w] = "err"]
          /\ args' = [args EXCEPT ![w] =
                        [kind |-> "command", root |-> kits_dir(project_path),
                         name |-> "", mode |-> ""]]
          /\ result' = [result EXCEPT ![w] =
                          Err("Kits directory does not exist: ",
                              Some(kits_dir(project_path)), "")]
          /\ UNCHANGED <<exists, watcher, queue, task, published, occurred>>
     ELSE watch_directory(w, kits_dir(project_path), "project-kits-changed",
                          new_err, watch_err)

\* tokio::spawn of the delivery task (both functions)
spawn(w) ==
  /\ pc[w] = "bound"
  /\ pc' = [pc EXCEPT ![w] = "spawned"]
  /\ task' = [task EXCEPT ![w] = "ready"]
  /\ UNCHANGED <<exists, setup, args, result, watcher, queue, published,
                 stderr, occurred>>

\* the delivery tasks that hold an executor worker: the async block has no
\* await, and rx.recv() is the blocking recv of std::sync::mpsc, so a task
\* that has started keeps its worker until its loop ends
Occupied == {v \in Watches : task[v] = "running"}

\* an executor worker takes a spawned task and starts its loop
poll(w) ==
  /\ task[w] = "ready"
  /\ Cardinality(Occupied) < Workers
  /\ task' = [task EXCEPT ![w] = "running"]
  /\ UNCHANGED <<exists, setup, pc, args, result, watcher, queue, published,
                 stderr, occurred>>

\* what becomes of the local `watcher` when the function returns Ok(())
watcher_at_return == "dropped"

\* Ok(()) at the end of watch_file / watch_directory: the locals go out of
\* scope, and the setup hook, when it is the caller, returns too
return_ok(w) ==
  /\ pc[w] = "spawned"
  /\ pc' = [pc EXCEPT ![w] = "ok"]
  /\ result' = [result EXCEPT ![w] = OkResult]
  /\ watcher' = [watcher EXCEPT ![w] = watcher_at_return]
  /\ setup' = IF args[w].kind = "file"
              THEN [setup EXCEPT !.at = setup_returns(FALSE)]
              ELSE setup
  /\ UNCHANGED <<exists, args, queue, task, published, stderr, occurred>>

\* ------------------------------------------------------------------ events
Live(w) == watcher[w] = "watching"

\* the receiver rx: a local of the call, then owned by the delivery task
rx_alive(w) == task[w] # "exited"

\* the native watcher of every live watch reports a result to its callback
native_event(res, max) ==
  /\ Len(occurred) < max
  /\ \A w \in Watches : Live(w) => can_send(queue[w])
  /\ LET id == Len(occurred) + 1
         out == [w \in Watches |->
                   IF ~Live(w) THEN Sent(queue[w])
                   ELSE IF args[w].kind = "file"
                   THEN file_callback(queue[w], id, res, rx_alive(w))
                   ELSE dir_callback(queue[w], id, res, rx_alive(w))]
     IN /\ queue' = [w \in Watches |-> out[w].q]
        /\ stderr' = stderr \cup
             UNION {{[watch |-> w, line |-> l] : l \in out[w].log} : w \in Watches}
        /\ occurred' = Append(occurred,
                          [res |-> res,
                           live |-> {w \in Watches : Live(w)},
                           est |-> {w \in Watches : pc[w] = "ok"},
                           failed |-> {w \in Watches : pc[w] = "err"}])
  /\ UNCHANGED <<exists, setup, pc, args, result, watcher, task, published>>

\* ------------------------------------------------------------------ tasks
\* all senders gone: recv on an empty queue returns Err
Disconnected(w) == watcher[w] \in {"none", "dropped"}

\* a publication on the registry channel whatever the watch
Emit_one_channel(w, item, payload, ok) ==
  [id |-> item.id, name |-> "project-registry-changed",
   shape |-> payload.shape, list |-> payload.list, ok |-> ok]

\* emit_all(&event_name, payload)
Emit(w, item, payload, ok) ==
  [id |-> item.id, name |-> args[w].name, shape |-> payload.shape,
   list |-> payload.list, ok |-> ok]

\* eprintln!("Failed to emit event {}: {}", event_name, e)
emit_log(w, emit_ok) ==
  IF emit_ok THEN {} ELSE {[watch |-> w, line |-> "Failed to emit event "]}

\* one turn of `while let Ok(event) = rx.recv()` in a delivery task
deliver(w, note, emit_ok) ==
  /\ queue' = [queue EXCEPT ![w] = Tail(queue[w])]
  /\ IF note = None
     THEN /\ emit_ok
          /\ UNCHANGED <<published, task, stderr>>
     ELSE /\ published' = [published EXCEPT ![w] =
                             Append(published[w],
                                    Emit(w, recv(queue[w]), note[1], emit_ok))]
          /\ stderr' = stderr \cup emit_log(w, emit_ok)
          /\ task' = [task EXCEPT ![w] = after_emit(emit_ok)]
  /\ UNCHANGED <<exists, setup, pc, args, result, watcher, occurred>>

task_exit(w) ==
  /\ task' = [task EXCEPT ![w] = "exited"]
  /\ UNCHANGED <<exists, setup, pc, args, result, watcher, queue, published,
                 stderr, occurred>>

\* the delivery task of watch_file
file_task(w, emit_ok) ==
  /\ task[w] = "running"
  /\ args[w].kind = "file"
  /\ IF recv_err(queue[w], Disconnected(w))
     THEN emit_ok /\ task_exit(w)
     ELSE /\ queue[w] # <<>>
          /\ deliver(w, file_notification(recv(queue[w]).ev, args[w].root),
                     emit_ok)

\* the delivery task of watch_directory
dir_task(w, emit_ok) ==
  /\ task[w] = "running"
  /\ args[w].kind = "dir"
  /\ IF recv_err(queue[w], Disconnected(w))
     THEN emit_ok /\ task_exit(w)
     ELSE /\ queue[w] # <<>>
          /\ deliver(w, dir_notification(recv(queue[w]).ev), emit_ok)

Next ==
  \/ \E w \in Watches, home_ok \in BOOLEAN, ne \in NewErrors,
        we \in WatchErrors(get_registry_path) :
       run_setup(w, home_ok, ne, we)
  \/ \E w \in Watches, ne \in NewErrors,
        we \in WatchErrors(kits_dir(ProjectPath)) :
       watch_project_kits(w, ProjectPath, ne, we)
  \/ \E w \in Watches : spawn(w)
  \/ \E w \in Watches : return_ok(w)
  \/ \E w \in Watches : poll(w)
  \/ /\ Len(occurred) < MaxEvents
     /\ \E res \in SysResults : native_event(res, MaxEvents)
  \/ \E w \in Watches, ok \in BOOLEAN : file_task(w, ok)
  \/ \E w \in Watches, ok \in BOOLEAN : dir_task(w, ok)

Spec == Init /\ [][Next]_vars

\* ---------------------------------------------------- one-event specification
\* A watch that has just been bound and whose task has been spawned, of either
\* kind, receiving one native result drawn from all of RawResults.
Spawned(kind) ==
  /\ exists = {get_registry_path, kits_dir(ProjectPath)}
  /\ setup = (IF kind = "file"
              THEN [at |-> "in_watch_file", home |-> "found"]
              ELSE [at |-> "done", home |-> "missing"])
  /\ pc = [w \in Watches |-> IF w = 1 THEN "spawned" ELSE "idle"]
  /\ args = [w \in Watches |->
               IF w # 1 THEN NoArgs
               ELSE IF kind = "file"
               THEN [kind |-> "file", root |-> get_registry_path,
                     name |-> "project-registry-changed",
                     mode |-> "NonRecursive"]
               ELSE [kind |-> "dir", root |-> kits_dir(ProjectPath),
                     name |-> "project-kits-changed", mode |-> "Recursive"]]
  /\ result = [w \in Watches |-> NoResult]
  /\ watcher = [w \in Watches |-> IF w = 1 THEN "watching" ELSE "none"]
  /\ queue = [w \in Watches |-> <<>>]
  /\ task = [w \in Watches |-> IF w = 1 THEN "ready" ELSE "none"]
  /\ published = [w \in Watches |-> <<>>]
  /\ stderr = {}
  /\ occurred = <<>>

InitOneEvent == \E kind \in {"file", "dir"} : Spawned(kind)

NextOneEvent ==
  \/ /\ occurred = <<>>
     /\ \E res \in RawResults : native_event(res, 1)
  \/ \E w \in Watches : return_ok(w)
  \/ \E w \in Watches : poll(w)
  \/ \E w \in Watches, ok \in BOOLEAN : file_task(w, ok)
  \/ \E w \in Watches, ok \in BOOLEAN : dir_task(w, ok)

SpecOneEvent == InitOneEvent /\ [][NextOneEvent]_vars

\* ---------------------------------------------------- one-watch specification
\* The same spawned watch, receiving up to MaxEvents results of SysResults
\* while its call returns and its task runs.
NextOneWatch ==
  \/ /\ Len(occurred) < MaxEvents
     /\ \E res \in SysResults : native_event(res, MaxEvents)
  \/ \E w \in Watches : return_ok(w)
  \/ \E w \in Watches : poll(w)
  \/ \E w \in Watches, ok \in BOOLEAN : file_task(w, ok)
  \/ \E w \in Watches, ok \in BOOLEAN : dir_task(w, ok)

SpecOneWatch == InitOneEvent /\ [][NextOneWatch]_vars

\* ------------------------------------------------------------ history helpers
Ids(seq) == {seq[j].id : j \in 1..Len(seq)}

Elems(seq) == {seq[j] : j \in 1..Len(seq)}

\* the native results a watch's callback was invoked with
Reported(w) == {i \in 1..Len(occurred) : w \in occurred[i].live}

\* ... and that are no longer waiting in its queue
Settled(w) == Reported(w) \ Ids(queue[w])

Qualifying(res) ==
  res.tag = "Ok" /\ res.kind \in {"Create", "Modify", "Remove"}

\* the publications of watch w caused by native result i
Pubs(w, i) == {j \in 1..Len(published[w]) : published[w][j].id = i}

\* the task of w has taken everything reported so far: it has exited or is
\* waiting in recv on the empty queue
Quiet(w) == queue[w] = <<>> /\ task[w] \in {"running", "exited"}

\* ----------------------------------------------------------------------- C1
\* C1: after watch_file or watch_directory has returned Ok the watch stays
\* live: the native watcher is still watching and the sender side of the
\* queue is still open, so later events reach the callback.
C1_WatchStaysLive ==
  \A w \in Watches : pc[w] = "ok" => watcher[w] = "watching"

\* ----------------------------------------------------------------------- C2
FailedCall(w) == pc[w] = "err" /\ args[w].kind \in {"file", "dir"}

NeverDelivered(w) ==
  /\ task[w] = "none"
  /\ queue[w] = <<>>
  /\ published[w] = <<>>
  /\ Reported(w) = {}

\* C2 as stated: a failed establishing call returns an error that carries
\* the root path and the error text, whichever step failed, and nothing is
\* ever delivered for it.
C2_Original ==
  \A w \in Watches :
    FailedCall(w) =>
      /\ result[w].status = "err"
      /\ result[w].path = Some(args[w].root)
      /\ result[w].cause # ""
      /\ NeverDelivered(w)

\* C2 amended: a failed establishing call returns an error with the
\* underlying error text; it carries the root path when binding failed and
\* no path when creating the watcher failed; no task is spawned and nothing
\* is ever queued or published for it.
C2_SetupFailure ==
  \A w \in Watches :
    FailedCall(w) =>
      /\ result[w].status = "err"
      /\ result[w].cause \in {"TooManyWatches", "PermissionDenied", "NotFound"}
      /\ result[w].cause = "TooManyWatches" => result[w].path = None
      /\ result[w].cause # "TooManyWatches" =>
           result[w].path = Some(args[w].root)
      /\ NeverDelivered(w)

\* a bind failure on a missing path, and a native result that occurred after it
C2_Witness ==
  \E w \in Watches :
    /\ FailedCall(w)
    /\ result[w].cause = "NotFound"
    /\ \E i \in 1..Len(occurred) : w \in occurred[i].failed

\* ----------------------------------------------------------------------- C3
\* C3: for a file watch on p, a settled Create/Modify/Remove event has caused
\* a Signal exactly when p is an element of its paths, at any position.
C3_ExactPathAnyPosition ==
  \A w \in Watches :
    args[w].kind = "file" =>
      \A i \in Settled(w) :
        Qualifying(occurred[i].res) =>
          ((\E j \in Pubs(w, i) : published[w][j].shape = "unit")
             <=> args[w].root \in Elems(occurred[i].res.paths))

\* ----------------------------------------------------------------------- C4
MdAt(paths) == {k \in 1..Len(paths) : is_md(paths[k])}

TextAt(paths) ==
  {k \in 1..Len(paths) : is_md(paths[k]) /\ path_to_string(paths[k]) # None}

\* the k-th smallest member of a set of indices
Kth(S, k) == CHOOSE n \in S : Cardinality({m \in S : m <= n}) = k

\* list is the texts of the paths at the indices S, in order
IsProjection(list, paths, S) ==
  /\ Len(list) = Cardinality(S)
  /\ \A k \in 1..Len(list) : list[k] = Flatten(paths[Kth(S, k)])

DirPublications(P(_, _)) ==
  \A w \in Watches :
    args[w].kind = "dir" =>
      \A j \in 1..Len(published[w]) :
        P(published[w][j].list, occurred[published[w][j].id].res.paths)

C4_OriginalTest(list, paths) == IsProjection(list, paths, MdAt(paths))

\* C4 as stated: the payload of a tree watch is the subsequence of the
\* event's paths whose extension is "md", all of them, in order.
C4_Original == DirPublications(C4_OriginalTest)

C4_Test(list, paths) == IsProjection(list, paths, TextAt(paths))

\* C4 amended: the payload of a tree watch is the subsequence of the event's
\* paths whose extension is "md" and whose whole path is valid Unicode text,
\* all of them, in order, each as its text.
C4_Projection == DirPublications(C4_Test)

\* a payload of two paths out of three, the dropped one in the middle
C4_Witness ==
  \E w \in Watches :
    /\ args[w].kind = "dir"
    /\ \E j \in 1..Len(published[w]) :
         LET paths == occurred[published[w][j].id].res.paths
         IN /\ Len(paths) = 3
            /\ ~is_md(paths[2])
            /\ Len(published[w][j].list) = 2
            /\ published[w][j].list[1] # published[w][j].list[2]

\* ----------------------------------------------------------------------- C5
\* C5: every path list a tree watch publishes has at least one entry, and a
\* raw event none of whose paths has the extension causes no publication.
C5_NoEmptyPayload ==
  \A w \in Watches :
    args[w].kind = "dir" =>
      /\ \A j \in 1..Len(published[w]) :
           published[w][j].shape = "list" /\ Len(published[w][j].list) >= 1
      /\ \A i \in Settled(w) :
           MdAt(occurred[i].res.paths) = {} => Pubs(w, i) = {}

\* the task took an event whose projection is empty and published nothing
C5_Witness ==
  \E w \in Watches :
    /\ args[w].kind = "dir"
    /\ \E i \in Settled(w) :
         /\ Qualifying(occurred[i].res)
         /\ MdAt(occurred[i].res.paths) # {}
         /\ TextAt(occurred[i].res.paths) = {}
         /\ Pubs(w, i) = {}

\* ----------------------------------------------------------------------- C6
\* C6: a native result that is an error, or an event whose kind is not
\* Create, Modify or Remove, is never queued and never published, for
\* either kind of watch.
C6_KindGate ==
  \A w \in Watches :
    /\ \A j \in 1..Len(queue[w]) : Qualifying(queue[w][j].ev)
    /\ \A i \in Reported(w) :
         ~Qualifying(occurred[i].res) =>
           i \notin Ids(queue[w]) /\ Pubs(w, i) = {}

\* a live watch was handed a non-qualifying result that names a path it
\* would otherwise publish
C6_Witness ==
  \E w \in Watches :
    \E i \in Reported(w) :
      /\ occurred[i].res.kind \in {"Access", "Other"}
      /\ occurred[i].res.paths # <<>>
      /\ occurred[i].res.paths[1] \in {get_registry_path, KitA}
      /\ args[w].kind = (IF occurred[i].res.paths[1] = KitA THEN "dir" ELSE "file")

\* ----------------------------------------------------------------------- C7
\* C7: a watch publishes in the order in which the native results were
\* reported.
C7_Fifo ==
  \A w \in Watches :
    \A j, k \in 1..Len(published[w]) :
      j < k => published[w][j].id < published[w][k].id

C7_Witness == \E w \in Watches : Len(published[w]) >= 2

\* ----------------------------------------------------------------------- C8
Last(seq) == seq[Len(seq)]

FailedPublish(w) ==
  /\ Len(published'[w]) = Len(published[w]) + 1
  /\ ~Last(published'[w]).ok

\* C8: a failed publish leaves the delivery task running, the event is
\* taken off the queue and is published at most once (no retry).
C8_FailedPublishGoesOn ==
  [][\A w \in Watches :
       FailedPublish(w) =>
         /\ task'[w] = "running"
         /\ queue'[w] = Tail(queue[w])
         /\ Last(published'[w]).id \notin Ids(queue'[w])
         /\ Last(published'[w]).id \notin Ids(published[w])]_vars

\* the task published the next event after a failed publish
C8_Witness ==
  \E w \in Watches :
    /\ Len(published[w]) >= 2
    /\ ~published[w][1].ok
    /\ published[w][2].id # published[w][1].id

\* ----------------------------------------------------------------------- C9
\* C9: with the file watch on the registry established, one modification of
\* the registry file, once the watch has come to rest, has caused exactly
\* one Signal on the channel.
C9_ScenarioA ==
  \A w \in Watches :
    ( /\ args[w].kind = "file"
      /\ pc[w] = "ok"
      /\ Len(occurred) = 1
      /\ occurred[1].res = Ok("Modify", <<args[w].root>>)
      /\ w \in occurred[1].est
      /\ Quiet(w) )
    => Cardinality({j \in Pubs(w, 1) :
                      /\ published[w][j].shape = "unit"
                      /\ published[w][j].name = "project-registry-changed"}) = 1

\* ---------------------------------------------------------------------- C10
\* C10: two watches established on the same directory each publish, once,
\* every qualifying event on a shared path that occurs after both were
\* established.
C10_EachWatchPublishes ==
  \A v, w \in Watches :
    ( /\ v # w
      /\ args[v].kind = "dir" /\ args[w].kind = "dir"
      /\ args[v].root = args[w].root
      /\ pc[v] = "ok" /\ pc[w] = "ok"
      /\ Quiet(v) /\ Quiet(w) )
    => \A i \in 1..Len(occurred) :
         ( /\ {v, w} \subseteq occurred[i].est
           /\ Qualifying(occurred[i].res)
           /\ TextAt(occurred[i].res.paths) # {} )
         => Cardinality(Pubs(v, i)) = 1 /\ Cardinality(Pubs(w, i)) = 1

\* ---------------------------------------------------------------------- C11
SetupLine(w) == [watch |-> w, line |-> "Failed to start file watcher: "]

FileWatchFailed(w) == args[w].kind = "file" /\ pc[w] = "err"

\* the application runs and takes commands
CommandsAvailable ==
  /\ setup.at = "done"
  /\ (\E w \in Watches : FreeSlot(w)) =>
       ENABLED (\E w \in Watches, ne \in NewErrors,
                   we \in WatchErrors(kits_dir(ProjectPath)) :
                  watch_project_kits(w, ProjectPath, ne, we))

\* C11 as stated: when resolving the registry path or establishing the
\* registry file watch fails during setup, the failure is logged, setup
\* returns Ok and the application goes on taking commands.
C11_Original ==
  /\ setup.at # "failed"
  /\ (setup.home = "missing" \/ \E w \in Watches : FileWatchFailed(w)) =>
       /\ \E w \in Watches : SetupLine(w) \in stderr
       /\ CommandsAvailable

\* C11 amended: when establishing the registry file watch fails during setup
\* the failure is logged; when resolving the registry path fails nothing is
\* logged and no watch is attempted; in both cases setup returns Ok and the
\* application goes on taking commands.
C11_SetupNeverFatal ==
  /\ setup.at # "failed"
  /\ \A w \in Watches :
       FileWatchFailed(w) => SetupLine(w) \in stderr /\ CommandsAvailable
  /\ setup.home = "missing" =>
       /\ \A w \in Watches : SetupLine(w) \notin stderr /\ args[w].kind # "file"
       /\ CommandsAvailable

\* the file watch failed on the missing registry file, and a command ran later
C11_Witness ==
  \E v, w \in Watches :
    /\ FileWatchFailed(v)
    /\ result[v].cause = "NotFound"
    /\ args[w].kind \in {"dir", "command"}

\* ---------------------------------------------------------------------- C12
KitsCommandState ==
  \A w \in Watches :
    /\ args[w].kind = "command" =>
         /\ args[w].root = kits_dir(ProjectPath)
         /\ args[w].root \notin exists
         /\ result[w].status = "err"
         /\ result[w].prefix = "Kits directory does not exist: "
         /\ watcher[w] = "none"
         /\ NeverDelivered(w)
    /\ args[w].kind = "dir" =>
         /\ args[w].root = kits_dir(ProjectPath)
         /\ args[w].root \in exists
         /\ args[w].name = "project-kits-changed"
         /\ args[w].mode = "Recursive"

WaitingInRecv(w) ==
  task[w] = "running" /\ queue[w] = <<>> /\ ~Disconnected(w)

\* C13: a delivery task that waits on its empty queue holds no executor
\* worker: whenever some task waits, every spawned task that has events
\* queued can be started.
C13_WaitingTaskYields ==
  \A w \in Watches :
    WaitingInRecv(w) =>
      \A v \in Watches :
        (task[v] = "ready" /\ queue[v] # <<>>) => ENABLED poll(v)

\* ---------------------------------------------------------------------- C14
\* the relevance filter of the watch: the watched path is among the paths
\* (file watch), some path is an md path with a text (tree watch)
Relevant(w, res) ==
  IF args[w].kind = "file"
  THEN args[w].root \in Elems(res.paths)
  ELSE TextAt(res.paths) # {}

Passing(w) ==
  {i \in Reported(w) :
     Qualifying(occurred[i].res) /\ Relevant(w, occurred[i].res)}

\* C14: once a watch has taken everything reported to it, it has published
\* one notification for each raw event that passes the kind gate and the
\* relevance filter and none for any other: nothing lost, doubled or merged.
C14_OnePerQualifyingEvent ==
  \A w \in Watches :
    (args[w].kind \in {"file", "dir"} /\ Quiet(w)) =>
      /\ Len(published[w]) = Cardinality(Passing(w))
      /\ \A i \in Reported(w) :
           Cardinality(Pubs(w, i)) = (IF i \in Passing(w) THEN 1 ELSE 0)

\* --------------------------------------------------- extension specification
\* A spawned tree watch that is handed one Create event for one path whose
\* file name is any name of up to MaxName characters, directly in the kits
\* directory or in a subdirectory named "a.md".
NameChars == {"a", ".", "m", "d", "M"}

Names ==
  UNION {[1..n -> NameChars] : n \in 1..MaxName} \ {<<".">>, <<".", ".">>}

Parents == {kits_dir(ProjectPath), kits_dir(ProjectPath) \o << <<"a", ".", "m", "d">> >>}

InitExtension == Spawned("dir")

NextExtension ==
  \/ /\ occurred = <<>>
     /\ \E parent \in Parents, name \in Names :
          native_event(Ok("Create", <<parent \o <<name>>>>), 1)
  \/ \E w \in Watches : return_ok(w)
  \/ \E w \in Watches : poll(w)
  \/ \E w \in Watches, ok \in BOOLEAN : dir_task(w, ok)

SpecExtension == InitExtension /\ [][NextExtension]_vars

\* ---------------------------------------------------------------------- C15
\* the text after the last dot of the final component is "md"
EndsInDotMd(p) ==
  LET f == p[Len(p)]
  IN \E d \in 1..Len(f) :
       /\ f[d] = "."
       /\ \A j \in (d + 1)..Len(f) : f[j] # "."
       /\ SubSeq(f, d + 1, Len(f)) = <<"m", "d">>

\* ... and that dot is not the first character of the name
HasMdExtension(p) == EndsInDotMd(p) /\ p[Len(p)] # <<".", "m", "d">>

\* the tree watch treats every one-path event as the test says: queued and
\* published when the test accepts the path, neither when it does not
AcceptsBy(Test(_)) ==
  \A w \in Watches :
    args[w].kind = "dir" =>
      \A i \in Reported(w) :
        LET res == occurred[i].res
        IN (Qualifying(res) /\ Len(res.paths) = 1
              /\ path_to_string(res.paths[1]) # None) =>
             /\ i \in Ids(queue[w]) => Test(res.paths[1])
             /\ Pubs(w, i) # {} => Test(res.paths[1])
             /\ (i \in Settled(w) /\ Test(res.paths[1])) => Pubs(w, i) # {}

\* C15 as stated: the tree watch accepts a path exactly when the text after
\* the last dot of its final component is "md", names that begin with the
\* dot included.
C15_Original == AcceptsBy(EndsInDotMd)

\* C15 amended: the tree watch accepts a path exactly when the text after
\* the last dot of its final component is "md", case-sensitively, and the
\* name has at least one character before that dot: a file named ".md" has
\* no extension and is rejected.
C15_ExtensionPredicate == AcceptsBy(HasMdExtension)

\* a file named ".md" in a directory named "a.md" was reported and dropped
C15_Witness ==
  \E w \in Watches :
    /\ args[w].kind = "dir"
    /\ \E i \in Settled(w) :
         /\ Qualifying(occurred[i].res)
         /\ occurred[i].res.paths =
              << kits_dir(ProjectPath) \o << <<"a", ".", "m", "d">>, <<".", "m", "d">> >> >>
         /\ Pubs(w, i) = {}

\* ---------------------------------------------------------------------- C16
SendErrorLines == {"Error sending file event: ", "Error sending directory event: "}

C17_ChannelAndShape ==
  \A w \in Watches :
    \A j \in 1..Len(published[w]) :
      LET n == published[w][j]
      IN /\ n.name = args[w].name
         /\ args[w].kind \in {"file", "dir"}
         /\ args[w].kind = "file" =>
              /\ n.shape = "unit" /\ n.list = <<>>
              /\ args[w].root = get_registry_path
              /\ n.name = "project-registry-changed"
         /\ args[w].kind = "dir" =>
              /\ n.shape = "list"
              /\ \A k \in 1..Len(n.list) : to_str(n.list[k]) = Some(n.list[k])
              /\ args[w].root = kits_dir(ProjectPath)
              /\ n.name = "project-kits-changed"

\* the registry watch and a kits watch have both published
C17_Witness ==
  \E v, w \in Watches :
    /\ args[v].kind = "file" /\ published[v] # <<>>
    /\ args[w].kind = "dir" /\ published[w] # <<>>

\* ---------------------------------------------------------------------- C18
TaskStep(w) == \E ok \in BOOLEAN : file_task(w, ok) \/ dir_task(w, ok)

\* a started task whose producer is gone always has a step to take
NeverStuckOnClosedQueue ==
  \A w \in Watches :
    (task[w] = "running" /\ Disconnected(w)) => ENABLED TaskStep(w)

\* C18: the delivery task leaves its loop only when the producer is gone
\* and the queue is empty; until then it takes the queued events one by
\* one from the front; it never stays stuck on the closed queue; and after
\* it has left the loop it publishes nothing.
C18_TaskEndsWithProducer ==
  /\ []NeverStuckOnClosedQueue
  /\ [][\A w \in Watches :
          /\ (task[w] # "exited" /\ task'[w] = "exited") =>
               Disconnected(w) /\ queue[w] = <<>> /\ published'[w] = published[w]
          /\ task[w] = "exited" =>
               task'[w] = "exited" /\ published'[w] = published[w]
          /\ (task[w] = "running" /\ Disconnected(w) /\ queue[w] # <<>>) =>
               \/ UNCHANGED <<queue[w], task[w], published[w]>>
               \/ /\ queue'[w] = Tail(queue[w])
                  /\ task'[w] = "running"
                  /\ \A j \in (Len(published[w]) + 1)..Len(published'[w]) :
                       published'[w][j].id = queue[w][1].id]_vars

\* the watcher has been dropped and the started task still has events to take
C18_Witness ==
  \E w \in Watches :
    watcher[w] = "dropped" /\ task[w] = "running" /\ queue[w] # <<>>

\* ---------------------------------------------------------------------- C19
\* the events the callback of the tree watch w let into its queue and that
\* its task has taken
Taken(w) ==
  {i \in Settled(w) :
     Qualifying(occurred[i].res) /\ MdAt(occurred[i].res.paths) # {}}

\* C19 as stated: every event the callback of a tree watch let into the
\* queue has caused exactly one path list once the task has taken it, and
\* every path the callback counted as a match is in that list.
C19_Original ==
  \A w \in Watches :
    args[w].kind = "dir" =>
      \A i \in Taken(w) :
        /\ Cardinality(Pubs(w, i)) = 1
        /\ \A j \in Pubs(w, i) :
             \A k \in MdAt(occurred[i].res.paths) :
               Flatten(occurred[i].res.paths[k]) \in Elems(published[w][j].list)

\* C19 amended: every event the callback of a tree watch let into the queue
\* has caused, once the task has taken it, exactly one path list when at
\* least one of its md paths is valid Unicode text and none when none is;
\* every md path that is valid Unicode text is in that list.
C19_FiltersAgree ==
  \A w \in Watches :
    args[w].kind = "dir" =>
      \A i \in Taken(w) :
        /\ Cardinality(Pubs(w, i)) =
             (IF TextAt(occurred[i].res.paths) # {} THEN 1 ELSE 0)
        /\ \A j \in Pubs(w, i) :
             \A k \in TextAt(occurred[i].res.paths) :
               Flatten(occurred[i].res.paths[k]) \in Elems(published[w][j].list)

\* an event with two different md paths, one of them not Unicode, was taken
\* and published
C19_Witness ==
  \E w \in Watches :
    /\ args[w].kind = "dir"
    /\ \E i \in Taken(w) :
         /\ Cardinality(TextAt(occurred[i].res.paths)) >= 1
         /\ Cardinality(MdAt(occurred[i].res.paths)) >= 2
         /\ KitRaw \in Elems(occurred[i].res.paths)
         /\ Pubs(w, i) # {}

====
